---- MODULE Spec2Model ----
(***************************************************************************)
(* CodeCircle: votes on posts and comments, team membership, the comment   *)
(* thread store and the socket service, modelled from the route handlers   *)
(* and the SocketService class.                                            *)
(*                                                                         *)
(* Every route handler is an async function: it runs atomically between    *)
(* two awaits and other requests run while it waits.  A handler is         *)
(* therefore a chain of steps, one per await that reads or writes the      *)
(* store.  Documents are saved as Mongoose saves them: save() sends the    *)
(* delta recorded on the in-memory document ($push, $pullAll or $set per   *)
(* array path), increments __v when an array changed, and adds the __v it  *)
(* read to the filter only when an array was replaced ($set); a filter     *)
(* that matches no document makes save() throw.                            *)
(***************************************************************************)
EXTENDS Integers, Sequences, FiniteSets, TLC

VARIABLES posts, comments, postsRouter, vreq,
          teams, teamsJoined, notifications, treq, io, lastEmit,
          creq, conns, rooms, users, ncall

voteVars == <<posts, comments, postsRouter, vreq>>
teamVars == <<teams, teamsJoined, notifications, treq, io, lastEmit>>
vars == <<posts, comments, postsRouter, vreq,
          teams, teamsJoined, notifications, treq, io, lastEmit,
          creq, conns, rooms, users, ncall>>
sockVars == <<conns, rooms, users>>

(***************************************************************************)
(* Bounds                                                                  *)
(***************************************************************************)
MaxSaves == 3
MaxTeamWrites == 3
NumConns == 2
MaxNotifications == 2

Actors == {"A", "B", "C"}
Voters == {"A", "B"}
TeamIds == <<"t1", "t2">>
Teams == {TeamIds[k] : k \in DOMAIN TeamIds}
TeamNames == {"alpha"}
Posts == {"p1", "p2"}
CommentIds == <<"c1", "c2", "c3">>
Comments == {"c1", "c2"}
ThreadComments == {CommentIds[k] : k \in DOMAIN CommentIds}
Conns == 1..NumConns
RoomIds == {"1", "2"}
Contents == {"hello"}
Edits == {"edited"}
Reqs == {1, 2}
None == "none"

(***************************************************************************)
(* Helpers on arrays of ids                                                *)
(***************************************************************************)
Contains(arr, a) == \E i \in DOMAIN arr : arr[i] = a

Without_DropsAll(arr, a) == <<>>

Without(arr, a) == SelectSeq(arr, LAMBDA x : x # a)

Occurrences(arr, a) == Cardinality({i \in DOMAIN arr : arr[i] = a})

(* postSchema.virtual('score'), commentSchema.virtual('score') *)
score(doc) == Len(doc.upvotes) - Len(doc.downvotes)

(***************************************************************************)
(* Array operations recorded on a document and applied by save()           *)
(***************************************************************************)
NoOp == [t |-> "none", val |-> <<>>]
Push(a) == [t |-> "push", val |-> <<a>>]
SetTo(arr) == [t |-> "set", val |-> arr]
PullAll(a) == [t |-> "pullAll", val |-> <<a>>]

ApplyOp(arr, op) ==
  CASE op.t = "push" -> arr \o op.val
    [] op.t = "set" -> op.val
    [] op.t = "pullAll" -> SelectSeq(arr, LAMBDA x : ~Contains(op.val, x))
    [] OTHER -> arr

VersionWhere_Never(delta) == FALSE

(* Mongoose adds __v to the filter of the update when an array is replaced *)
VersionWhere(delta) == delta.upvotes.t = "set" \/ delta.downvotes.t = "set"

(***************************************************************************)
(* In-memory vote toggles.  Each yields the modified document and the      *)
(* delta save() will send.                                                 *)
(***************************************************************************)
UpvoteToggle_KeepsDownvote(doc, a) ==
  LET hasUpvoted == Contains(doc.upvotes, a)
  IN IF hasUpvoted
     THEN [up |-> Without(doc.upvotes, a), down |-> doc.downvotes,
           delta |-> [upvotes |-> SetTo(Without(doc.upvotes, a)), downvotes |-> NoOp],
           hasUpvoted |-> ~hasUpvoted, hasDownvoted |-> FALSE]
     ELSE [up |-> Append(doc.upvotes, a), down |-> doc.downvotes,
           delta |-> [upvotes |-> Push(a), downvotes |-> NoOp],
           hasUpvoted |-> ~hasUpvoted, hasDownvoted |-> FALSE]

(* routes/posts.js and routes/comments.js: upvote *)
UpvoteToggle(doc, a) ==
  LET hasUpvoted == Contains(doc.upvotes, a)
      hasDownvoted == Contains(doc.downvotes, a)
  IN IF hasUpvoted
     THEN [up |-> Without(doc.upvotes, a), down |-> doc.downvotes,
           delta |-> [upvotes |-> SetTo(Without(doc.upvotes, a)), downvotes |-> NoOp],
           hasUpvoted |-> ~hasUpvoted, hasDownvoted |-> FALSE]
     ELSE IF hasDownvoted
     THEN [up |-> Append(doc.upvotes, a), down |-> Without(doc.downvotes, a),
           delta |-> [upvotes |-> Push(a), downvotes |-> SetTo(Without(doc.downvotes, a))],
           hasUpvoted |-> ~hasUpvoted, hasDownvoted |-> FALSE]
     ELSE [up |-> Append(doc.upvotes, a), down |-> doc.downvotes,
           delta |-> [upvotes |-> Push(a), downvotes |-> NoOp],
           hasUpvoted |-> ~hasUpvoted, hasDownvoted |-> FALSE]

DownvoteToggle_NeverOff(doc, a) ==
  LET hasUpvoted == Contains(doc.upvotes, a)
      hasDownvoted == Contains(doc.downvotes, a)
  IN IF hasDownvoted
     THEN [up |-> doc.upvotes, down |-> doc.downvotes,
           delta |-> [upvotes |-> NoOp, downvotes |-> NoOp],
           hasUpvoted |-> FALSE, hasDownvoted |-> ~hasDownvoted]
     ELSE IF hasUpvoted
     THEN [up |-> Without(doc.upvotes, a), down |-> Append(doc.downvotes, a),
           delta |-> [upvotes |-> SetTo(Without(doc.upvotes, a)), downvotes |-> Push(a)],
           hasUpvoted |-> FALSE, hasDownvoted |-> ~hasDownvoted]
     ELSE [up |-> doc.upvotes, down |-> Append(doc.downvotes, a),
           delta |-> [upvotes |-> NoOp, downvotes |-> Push(a)],
           hasUpvoted |-> FALSE, hasDownvoted |-> ~hasDownvoted]

(* routes/posts.js and routes/comments.js: downvote *)
DownvoteToggle(doc, a) ==
  LET hasUpvoted == Contains(doc.upvotes, a)
      hasDownvoted == Contains(doc.downvotes, a)
  IN IF hasDownvoted
     THEN [up |-> doc.upvotes, down |-> Without(doc.downvotes, a),
           delta |-> [upvotes |-> NoOp, downvotes |-> SetTo(Without(doc.downvotes, a))],
           hasUpvoted |-> FALSE, hasDownvoted |-> ~hasDownvoted]
     ELSE IF hasUpvoted
     THEN [up |-> Without(doc.upvotes, a), down |-> Append(doc.downvotes, a),
           delta |-> [upvotes |-> SetTo(Without(doc.upvotes, a)), downvotes |-> Push(a)],
           hasUpvoted |-> FALSE, hasDownvoted |-> ~hasDownvoted]
     ELSE [up |-> doc.upvotes, down |-> Append(doc.downvotes, a),
           delta |-> [upvotes |-> NoOp, downvotes |-> Push(a)],
           hasUpvoted |-> FALSE, hasDownvoted |-> ~hasDownvoted]

(* the earlier posts router: pull from the opposite array, then toggle *)
EarlierUpvote(doc, a) ==
  LET down == Without(doc.downvotes, a)
      up == IF Contains(doc.upvotes, a) THEN Without(doc.upvotes, a)
            ELSE Append(doc.upvotes, a)
  IN [up |-> up, down |-> down,
      delta |-> [upvotes |-> IF Contains(doc.upvotes, a) THEN PullAll(a) ELSE Push(a),
                 downvotes |-> PullAll(a)],
      hasUpvoted |-> Contains(up, a), hasDownvoted |-> FALSE]

EarlierDownvote(doc, a) ==
  LET up == Without(doc.upvotes, a)
      down == IF Contains(doc.downvotes, a) THEN Without(doc.downvotes, a)
              ELSE Append(doc.downvotes, a)
  IN [up |-> up, down |-> down,
      delta |-> [upvotes |-> PullAll(a),
                 downvotes |-> IF Contains(doc.downvotes, a) THEN PullAll(a) ELSE Push(a)],
      hasUpvoted |-> FALSE, hasDownvoted |-> Contains(down, a)]

Toggle(router, dir, doc, a) ==
  IF router = "earlier"
  THEN (IF dir = "up" THEN EarlierUpvote(doc, a) ELSE EarlierDownvote(doc, a))
  ELSE (IF dir = "up" THEN UpvoteToggle(doc, a) ELSE DownvoteToggle(doc, a))

(***************************************************************************)
(* The store                                                               *)
(***************************************************************************)
NoPost == [exists |-> FALSE, author |-> None, upvotes |-> <<>>, downvotes |-> <<>>, v |-> 0]
NoComment == [exists |-> FALSE, post |-> None, parentComment |-> None, author |-> None,
              content |-> None, isEdited |-> FALSE, isDeleted |-> FALSE,
              upvotes |-> <<>>, downvotes |-> <<>>, v |-> 0]

(* the ids a vote request can name: the posts and the comment store's ids *)
Votables == Posts \cup DOMAIN comments

Stored(t) == IF t \in Posts THEN posts[t] ELSE comments[t]

(* the router that serves a votable: the server mounts one posts router, *)
(* routes/posts.js or its earlier version, and the comments router         *)
RouterOf(t) == IF t \in Posts THEN postsRouter ELSE "comments"

(* number of saves applied to the votables so far *)
RECURSIVE SumV(_)
SumV(S) == IF S = {} THEN 0
           ELSE LET t == CHOOSE x \in S : TRUE IN Stored(t).v + SumV(S \ {t})

(* a request is served in the first free entry of the request table *)
FirstFree(reqs, i) ==
  /\ reqs[i].pc \in {"idle", "done"}
  /\ \A j \in DOMAIN reqs : j < i => reqs[j].pc \notin {"idle", "done"}

(* maxMembers: maxMembers || 10 *)
DefaultMaxMembers == 10

(* maxMembers of a create request: 0 stands for an absent field *)
MaxMembersInputs == {0, 2}

NoEmit == [room |-> <<>>, event |-> None, to |-> {}]

NoConn == [state |-> "none", userId |-> None]

Room_IdOnly(prefix, id) == <<"user", id>>

(* the room names: `user_${userId}`, `post_${postId}`, `team_${teamId}` *)
Room(prefix, id) == <<prefix, id>>

InRoom_Everyone(room) == {c \in Conns : conns[c].state = "open"}

(* the sockets that io.to(room).emit reaches *)
InRoom(room) == {c \in Conns : room \in rooms[c]}

NoTeam == [exists |-> FALSE, name |-> None, creator |-> None, maxMembers |-> 0,
           isOpen |-> FALSE, members |-> <<>>, v |-> 0]

NoTeamReq == [pc |-> "idle", op |-> None, actor |-> None, team |-> None,
              doc |-> NoTeam, result |-> None]

NoCall == [op |-> None, actor |-> None, recipient |-> None, sender |-> None,
           index |-> 0, persistOk |-> TRUE, ret |-> <<>>]

NoSockets ==
  /\ conns = [c \in Conns |-> NoConn]
  /\ rooms = [c \in Conns |-> {}]
  /\ users = [a \in Actors |-> 0]
  /\ ncall = NoCall

TeamsEmpty ==
  /\ teams = [t \in Teams |-> NoTeam]
  /\ teamsJoined = [a \in Actors |-> 0]
  /\ notifications = <<>>
  /\ treq = [i \in Reqs |-> NoTeamReq]
  /\ io = TRUE
  /\ lastEmit = NoEmit
  /\ NoSockets

(* postId of a request body: the id it casts to, and whether the string is *)
(* the form ObjectId.toString() prints (lower-case hex)                    *)
NoPostId == [oid |-> None, canonical |-> TRUE]

NoThreadReq == [pc |-> "idle", op |-> None, actor |-> None, postId |-> NoPostId,
                parentCommentId |-> None, content |-> None, target |-> None,
                doc |-> NoComment, postGone |-> FALSE, commentsGone |-> FALSE,
                result |-> None]

IdleReq == [pc |-> "idle", actor |-> None, target |-> None, dir |-> None, router |-> None,
            doc |-> NoPost, status |-> 0, score |-> 0, hasUpvoted |-> FALSE,
            hasDownvoted |-> FALSE]

(* a finished request keeps its response until the next request arrives *)
Forget(reqs, i) ==
  [j \in DOMAIN reqs |-> IF j # i /\ reqs[j].pc = "done" THEN IdleReq ELSE reqs[j]]

(***************************************************************************)
(* POST /:id/upvote, POST /:id/downvote                                    *)
(***************************************************************************)
(* const post = await Post.findById(req.params.id); if (!post) return 404  *)
VoteFind(i, a, t, dir) ==
  /\ FirstFree(vreq, i)
  /\ SumV(Votables) < MaxSaves
  /\ LET found == Stored(t)
         fresh == [IdleReq EXCEPT !.actor = a, !.target = t, !.dir = dir,
                                  !.router = RouterOf(t)]
     IN vreq' = [Forget(vreq, i) EXCEPT ![i] =
                   IF found.exists
                   THEN [fresh EXCEPT !.pc = "found",
                                      !.doc = [NoPost EXCEPT !.exists = TRUE,
                                                             !.upvotes = found.upvotes,
                                                             !.downvotes = found.downvotes,
                                                             !.v = found.v]]
                   ELSE [fresh EXCEPT !.pc = "done", !.status = 404]]
  /\ UNCHANGED <<posts, comments, postsRouter>>
  /\ UNCHANGED <<teamVars, creq, sockVars, ncall>>

(* the stored document after post.save() has applied the delta *)
AfterSave(cur, delta) ==
  [cur EXCEPT !.upvotes = ApplyOp(cur.upvotes, delta.upvotes),
              !.downvotes = ApplyOp(cur.downvotes, delta.downvotes),
              !.v = cur.v + 1]

(* the toggle, await post.save(), and the response *)
VoteSave(i) ==
  /\ vreq[i].pc = "found"
  /\ LET r == vreq[i]
         t == r.target
         m == Toggle(r.router, r.dir, r.doc, r.actor)
         cur == Stored(t)
         matched == cur.exists /\ (VersionWhere(m.delta) => cur.v = r.doc.v)
         saved == AfterSave(cur, m.delta)
     IN /\ matched => SumV(Votables) < MaxSaves
        /\ UNCHANGED postsRouter
        /\ UNCHANGED <<teamVars, creq, sockVars, ncall>>
        /\ IF matched
           THEN /\ posts' = IF t \in Posts THEN [posts EXCEPT ![t] = saved] ELSE posts
                /\ comments' = IF t \in Posts THEN comments ELSE [comments EXCEPT ![t] = saved]
                /\ vreq' = [vreq EXCEPT ![i] = [r EXCEPT !.pc = "done", !.status = 200,
                                                        !.score = Len(m.up) - Len(m.down),
                                                        !.hasUpvoted = m.hasUpvoted,
                                                        !.hasDownvoted = m.hasDownvoted]]
           ELSE /\ vreq' = [vreq EXCEPT ![i] = [r EXCEPT !.pc = "done", !.status = 500]]
                /\ UNCHANGED <<posts, comments>>

VoteInit ==
  /\ posts = [p \in Posts |-> IF p = "p1" THEN [NoPost EXCEPT !.exists = TRUE, !.author = "A"]
                              ELSE NoPost]
  /\ comments = [c \in Comments |->
                   IF c = "c1" THEN [NoComment EXCEPT !.exists = TRUE, !.post = "p1",
                                                      !.author = "B", !.content = "text"]
                   ELSE NoComment]
  /\ postsRouter \in {"posts", "earlier"}
  /\ vreq = [i \in Reqs |-> IdleReq]
  /\ TeamsEmpty
  /\ creq = [i \in Reqs |-> NoThreadReq]

VoteNext ==
  \/ \E i \in Reqs, a \in Voters, t \in Votables, dir \in {"up", "down"} :
        VoteFind(i, a, t, dir)
  \/ \E i \in Reqs : VoteSave(i)

VoteSpec == VoteInit /\ [][VoteNext]_vars

(* requests served one at a time: a request starts when none is in flight *)
NoVoteInFlight == \A i \in Reqs : vreq[i].pc # "found"

VoteSeqNext ==
  \/ \E i \in Reqs, a \in Voters, t \in Votables, dir \in {"up", "down"} :
        NoVoteInFlight /\ VoteFind(i, a, t, dir)
  \/ \E i \in Reqs : VoteSave(i)

VoteSeqSpec == VoteInit /\ [][VoteSeqNext]_vars

(***************************************************************************)
(* Teams                                                                   *)
(***************************************************************************)

(* members.some(member => member.user.toString() === req.user._id.toString()) *)
IsMember(members, a) == \E k \in DOMAIN members : members[k].user = a

MemberCount(members, a) == Cardinality({k \in DOMAIN members : members[k].user = a})

(* members.findIndex(...): the first position of the actor, 0 for -1 *)
MemberIndex(members, a) ==
  IF IsMember(members, a)
  THEN CHOOSE k \in DOMAIN members :
         members[k].user = a /\ \A l \in DOMAIN members : members[l].user = a => k <= l
  ELSE 0

IsFull_OffByOne(team) == Len(team.members) > team.maxMembers

(* team.members.length >= team.maxMembers *)
IsFull(team) == Len(team.members) >= team.maxMembers

(* members.splice(memberIndex, 1) *)
Splice(members, k) == SubSeq(members, 1, k - 1) \o SubSeq(members, k + 1, Len(members))

(* team ids are never reused: a deleted team keeps its creator and __v here *)
TeamWrites ==
  LET RECURSIVE Sum(_)
      Sum(S) == IF S = {} THEN 0
                ELSE LET t == CHOOSE x \in S : TRUE
                     IN (IF teams[t].creator # None THEN teams[t].v + 1 ELSE 0) + Sum(S \ {t})
  IN Sum(Teams)

ForgetTeam(reqs, i) ==
  [j \in DOMAIN reqs |-> IF j # i /\ reqs[j].pc = "done" THEN NoTeamReq ELSE reqs[j]]

createNotification_NoSelfCheck(recipientId, senderId, type, relatedTeam, persistOk) ==
  IF persistOk
  THEN <<[recipient |-> recipientId, sender |-> senderId, type |-> type,
          relatedTeam |-> relatedTeam, isRead |-> FALSE, readAt |-> None,
          createdAt |-> Len(notifications) + 1]>>
  ELSE <<>>

(* notificationSchema.statics.createNotification: the record it stores,    *)
(* none when sender and recipient are the same or when the write fails     *)
createNotification(recipientId, senderId, type, relatedTeam, persistOk) ==
  IF recipientId = senderId THEN <<>>
  ELSE IF persistOk
       THEN <<[recipient |-> recipientId, sender |-> senderId, type |-> type,
               relatedTeam |-> relatedTeam, isRead |-> FALSE, readAt |-> None,
          createdAt |-> Len(notifications) + 1]>>
       ELSE <<>>

Min(x, y) == IF x < y THEN x ELSE y

Reverse(seq) == [k \in 1..Len(seq) |-> seq[Len(seq) + 1 - k]]

(* { page = 1, limit = 20, unreadOnly = false } *)
NotificationLimit == 20

(* the records a filter selects, in the order they were stored *)
Matching(userId, unreadOnly) ==
  LET Matches(n) == n.recipient = userId /\ (unreadOnly => n.isRead = FALSE)
  IN SelectSeq(notifications, Matches)

getUserNotifications_AnyRecipient(userId, page, limit, unreadOnly) ==
  LET Anyone(n) == unreadOnly => n.isRead = FALSE
      found == Reverse(SelectSeq(notifications, Anyone))
      skip == (page - 1) * limit
  IN [notifications |-> SubSeq(found, skip + 1, Min(skip + limit, Len(found))),
      total |-> Len(found),
      unreadCount |-> Len(Matching(userId, TRUE))]

(* notificationSchema.statics.getUserNotifications: find(filter) sorted by  *)
(* createdAt descending, skip((page - 1) * limit), limit(limit), and the    *)
(* two counts                                                              *)
getUserNotifications(userId, page, limit, unreadOnly) ==
  LET found == Reverse(Matching(userId, unreadOnly))
      skip == (page - 1) * limit
  IN [notifications |-> SubSeq(found, skip + 1, Min(skip + limit, Len(found))),
      total |-> Len(found),
      unreadCount |-> Len(Matching(userId, TRUE))]

(* POST /api/teams: the new team holds its creator as admin *)
CreateTeam(a, t, name, maxMembers, isOpen) ==
  /\ TeamWrites < MaxTeamWrites
  /\ teams[t].creator = None
  /\ \E k \in DOMAIN TeamIds :
       t = TeamIds[k] /\ \A l \in 1..(k - 1) : teams[TeamIds[l]].creator # None
  /\ ~\E u \in Teams : teams[u].exists /\ teams[u].name = name
  /\ teams' = [teams EXCEPT ![t] =
                 [exists |-> TRUE, name |-> name, creator |-> a,
                  maxMembers |-> IF maxMembers = 0 THEN DefaultMaxMembers ELSE maxMembers,
                  isOpen |-> isOpen,
                  members |-> <<[user |-> a, role |-> "admin"]>>, v |-> 0]]
  /\ teamsJoined' = [teamsJoined EXCEPT ![a] = @ + 1]
  /\ UNCHANGED <<notifications, treq, io, lastEmit>>
  /\ UNCHANGED <<voteVars, creq, sockVars, ncall>>

(* POST /:id/join and POST /:id/leave: const team = await Team.findById    *)
TeamFind(i, op, a, t) ==
  /\ FirstFree(treq, i)
  /\ TeamWrites < MaxTeamWrites
  /\ LET fresh == [NoTeamReq EXCEPT !.op = op, !.actor = a, !.team = t]
     IN treq' = [ForgetTeam(treq, i) EXCEPT ![i] =
                   IF teams[t].exists
                   THEN [fresh EXCEPT !.pc = "found", !.doc = teams[t]]
                   ELSE [fresh EXCEPT !.pc = "done", !.result = "NOT_FOUND"]]
  /\ UNCHANGED <<teams, teamsJoined, notifications, io, lastEmit>>
  /\ UNCHANGED <<voteVars, creq, sockVars, ncall>>

JoinRejection_ClosedFirst(team, a) ==
  IF ~team.isOpen THEN "TEAM_CLOSED"
  ELSE IF IsMember(team.members, a) THEN "ALREADY_MEMBER"
  ELSE IF IsFull(team) THEN "TEAM_FULL"
  ELSE None

(* the checks of join in their order: already a member, full, not open *)
JoinRejection(team, a) ==
  IF IsMember(team.members, a) THEN "ALREADY_MEMBER"
  ELSE IF IsFull(team) THEN "TEAM_FULL"
  ELSE IF ~team.isOpen THEN "TEAM_CLOSED"
  ELSE None

(* join: the three checks, members.push and await team.save() *)
JoinSave(i) ==
  /\ treq[i].pc = "found" /\ treq[i].op = "join"
  /\ LET r == treq[i]
         team == r.doc
         cur == teams[r.team]
         reject(kind) == /\ treq' = [treq EXCEPT ![i] = [r EXCEPT !.pc = "done", !.result = kind]]
                         /\ UNCHANGED teams
     IN IF JoinRejection(team, r.actor) # None THEN reject(JoinRejection(team, r.actor))
        ELSE IF ~cur.exists THEN reject("ERROR")
        ELSE /\ TeamWrites < MaxTeamWrites
             /\ teams' = [teams EXCEPT ![r.team] =
                            [cur EXCEPT !.members = Append(cur.members,
                                                     [user |-> r.actor, role |-> "member"]),
                                        !.v = cur.v + 1]]
             /\ treq' = [treq EXCEPT ![i] = [r EXCEPT !.pc = "saved"]]
  /\ UNCHANGED <<teamsJoined, notifications, io, lastEmit>>
  /\ UNCHANGED <<voteVars, creq, sockVars, ncall>>

(* join after the save: the user's counter, the creator's notification,    *)
(* socketService.emitToTeam and the response                               *)
JoinFinish(i, persistOk) ==
  /\ treq[i].pc = "saved" /\ treq[i].op = "join"
  /\ LET r == treq[i]
     IN /\ teamsJoined' = [teamsJoined EXCEPT ![r.actor] = @ + 1]
        /\ notifications' = notifications \o
             createNotification(r.doc.creator, r.actor, "team_member_joined", r.team, persistOk)
        /\ IF io
           THEN /\ lastEmit' = [room |-> Room("team", r.team), event |-> "member_joined",
                                 to |-> InRoom(Room("team", r.team))]
                /\ treq' = [treq EXCEPT ![i] = [r EXCEPT !.pc = "done", !.result = "OK"]]
           ELSE /\ lastEmit' = lastEmit
                /\ treq' = [treq EXCEPT ![i] = [r EXCEPT !.pc = "done", !.result = "ERROR"]]
  /\ UNCHANGED <<teams, io>>
  /\ UNCHANGED <<voteVars, creq, sockVars, ncall>>

CreatorMustStay_Never(team, a) == FALSE

(* team.creator.toString() === req.user._id.toString() &&                  *)
(* team.members.length > 1                                                 *)
CreatorMustStay(team, a) == team.creator = a /\ Len(team.members) > 1

(* leave: the two checks, members.splice and await team.save(); splice     *)
(* replaces the array, so the update carries the __v that was read         *)
LeaveSave(i) ==
  /\ treq[i].pc = "found" /\ treq[i].op = "leave"
  /\ LET r == treq[i]
         team == r.doc
         cur == teams[r.team]
         memberIndex == MemberIndex(team.members, r.actor)
         reject(kind) == /\ treq' = [treq EXCEPT ![i] = [r EXCEPT !.pc = "done", !.result = kind]]
                         /\ UNCHANGED teams
     IN IF memberIndex = 0 THEN reject("NOT_MEMBER")
        ELSE IF CreatorMustStay(team, r.actor)
             THEN reject("CREATOR_MUST_TRANSFER")
        ELSE IF ~(cur.exists /\ cur.v = team.v) THEN reject("ERROR")
        ELSE /\ TeamWrites < MaxTeamWrites
             /\ teams' = [teams EXCEPT ![r.team] =
                            [cur EXCEPT !.members = Splice(team.members, memberIndex),
                                        !.v = cur.v + 1]]
             /\ treq' = [treq EXCEPT ![i] =
                           [r EXCEPT !.pc = "saved",
                                     !.doc = [team EXCEPT !.members = Splice(team.members, memberIndex)]]]
  /\ UNCHANGED <<teamsJoined, notifications, io, lastEmit>>
  /\ UNCHANGED <<voteVars, creq, sockVars, ncall>>

(* leave after the save: the user's counter, Team.findByIdAndDelete when   *)
(* the in-memory member list is empty, and the response                    *)
LeaveFinish(i) ==
  /\ treq[i].pc = "saved" /\ treq[i].op = "leave"
  /\ LET r == treq[i]
     IN /\ teamsJoined' = [teamsJoined EXCEPT ![r.actor] = @ - 1]
        /\ teams' = IF Len(r.doc.members) = 0
                    THEN [teams EXCEPT ![r.team] = [@ EXCEPT !.exists = FALSE]]
                    ELSE teams
        /\ treq' = [treq EXCEPT ![i] = [r EXCEPT !.pc = "done", !.result = "OK"]]
  /\ UNCHANGED <<notifications, io, lastEmit>>
  /\ UNCHANGED <<voteVars, creq, sockVars, ncall>>

TeamInit ==
  /\ teams = [t \in Teams |-> NoTeam]
  /\ teamsJoined = [a \in Actors |-> 0]
  /\ notifications = <<>>
  /\ treq = [i \in Reqs |-> NoTeamReq]
  /\ io \in BOOLEAN
  /\ lastEmit = NoEmit
  /\ NoSockets
  /\ posts = [p \in Posts |-> NoPost]
  /\ comments = [c \in Comments |-> NoComment]
  /\ postsRouter = "posts"
  /\ vreq = [i \in Reqs |-> IdleReq]
  /\ creq = [i \in Reqs |-> NoThreadReq]

TeamStep(i) ==
  \/ JoinSave(i)
  \/ \E persistOk \in BOOLEAN : JoinFinish(i, persistOk)
  \/ LeaveSave(i)
  \/ LeaveFinish(i)

TeamNext ==
  \/ \E a \in Actors, t \in Teams, name \in TeamNames, maxMembers \in MaxMembersInputs,
        isOpen \in BOOLEAN : CreateTeam(a, t, name, maxMembers, isOpen)
  \/ \E i \in Reqs, op \in {"join", "leave"}, a \in Actors, t \in Teams : TeamFind(i, op, a, t)
  \/ \E i \in Reqs : TeamStep(i)

TeamSpec == TeamInit /\ [][TeamNext]_vars

(* requests served one at a time *)
NoTeamInFlight == \A i \in Reqs : treq[i].pc \in {"idle", "done"}

TeamSeqNext ==
  \/ \E a \in Actors, t \in Teams, name \in TeamNames, maxMembers \in MaxMembersInputs,
        isOpen \in BOOLEAN : NoTeamInFlight /\ CreateTeam(a, t, name, maxMembers, isOpen)
  \/ \E i \in Reqs, op \in {"join", "leave"}, a \in Actors, t \in Teams :
        NoTeamInFlight /\ TeamFind(i, op, a, t)
  \/ \E i \in Reqs : TeamStep(i)

TeamSeqSpec == TeamInit /\ [][TeamSeqNext]_vars

(* the service is initialised and two users are connected: A's socket is   *)
(* in A's own room, B's socket also joined the room of team t1             *)
FanoutInit ==
  /\ teams = [t \in Teams |-> NoTeam]
  /\ teamsJoined = [a \in Actors |-> 0]
  /\ notifications = <<>>
  /\ treq = [i \in Reqs |-> NoTeamReq]
  /\ io = TRUE
  /\ lastEmit = NoEmit
  /\ conns = [c \in Conns |-> [state |-> "open", userId |-> IF c = 1 THEN "A" ELSE "B"]]
  /\ rooms = [c \in Conns |-> IF c = 1 THEN {Room("user", "A")}
                                 ELSE {Room("user", "B"), Room("team", "t1")}]
  /\ users = [a \in Actors |-> IF a = "A" THEN 1 ELSE IF a = "B" THEN NumConns ELSE 0]
  /\ ncall = NoCall
  /\ posts = [p \in Posts |-> NoPost]
  /\ comments = [c \in Comments |-> NoComment]
  /\ postsRouter = "posts"
  /\ vreq = [i \in Reqs |-> IdleReq]
  /\ creq = [i \in Reqs |-> NoThreadReq]

(* the steps of join and leave when the store accepts every write *)
FanoutStep(i) ==
  \/ JoinSave(i)
  \/ JoinFinish(i, TRUE)
  \/ LeaveSave(i)
  \/ LeaveFinish(i)

FanoutSeqNext ==
  \/ \E a \in Actors, t \in Teams, name \in TeamNames, maxMembers \in MaxMembersInputs,
        isOpen \in BOOLEAN : NoTeamInFlight /\ CreateTeam(a, t, name, maxMembers, isOpen)
  \/ \E i \in Reqs, op \in {"join", "leave"}, a \in Actors, t \in Teams :
        NoTeamInFlight /\ TeamFind(i, op, a, t)
  \/ \E i \in Reqs : FanoutStep(i)

FanoutSeqSpec == FanoutInit /\ [][FanoutSeqNext]_vars

(***************************************************************************)
(* Comments: create, update, soft delete; deletion of a post               *)
(***************************************************************************)
(* a deleted comment: only its id, author and post are remembered, since   *)
(* ids are never reused                                                    *)
Gone(comment) == [NoComment EXCEPT !.author = comment.author, !.post = comment.post,
                                   !.parentComment = comment.parentComment]

ForgetThread(reqs, i) ==
  [j \in DOMAIN reqs |-> IF j # i /\ reqs[j].pc = "done" THEN NoThreadReq ELSE reqs[j]]

OtherPost_Never(parentComment, postId) == FALSE

(* parentComment.post.toString() !== postId *)
OtherPost(parentComment, postId) == ~(postId.canonical /\ parentComment.post = postId.oid)

(* the id Comment.create gives the new document: ids are never reused *)
FreshComment(c) ==
  \E k \in DOMAIN CommentIds :
    /\ c = CommentIds[k] /\ c \in DOMAIN comments /\ comments[c].author = None
    /\ \A l \in 1..(k - 1) : comments[CommentIds[l]].author # None

(* POST /api/comments: const post = await Post.findById(postId); a request *)
(* without parent goes on to Comment.create                                *)
CommentFindPost(i, a, postId, parentCommentId, content) ==
  /\ FirstFree(creq, i)
  /\ LET fresh == [NoThreadReq EXCEPT !.op = "create", !.actor = a, !.postId = postId,
                                      !.parentCommentId = parentCommentId,
                                      !.content = content]
     IN creq' = [ForgetThread(creq, i) EXCEPT ![i] =
                   IF ~posts[postId.oid].exists
                   THEN [fresh EXCEPT !.pc = "done", !.result = "NOT_FOUND"]
                   ELSE IF parentCommentId # None
                   THEN [fresh EXCEPT !.pc = "post_found"]
                   ELSE [fresh EXCEPT !.pc = "checked"]]
  /\ UNCHANGED <<posts, comments>>
  /\ UNCHANGED <<postsRouter, vreq, teamVars, sockVars, ncall>>

(* const parentComment = await Comment.findById(parentCommentId) and the   *)
(* same-post test                                                          *)
CommentFindParent(i) ==
  /\ creq[i].pc = "post_found" /\ creq[i].op = "create"
  /\ LET r == creq[i]
         parentComment == comments[r.parentCommentId]
     IN creq' = [creq EXCEPT ![i] =
                   IF ~parentComment.exists
                   THEN [r EXCEPT !.pc = "done", !.result = "NOT_FOUND"]
                   ELSE IF OtherPost(parentComment, r.postId)
                   THEN [r EXCEPT !.pc = "done", !.result = "INVALID_REFERENCE",
                                  !.doc = parentComment]
                   ELSE [r EXCEPT !.pc = "checked", !.doc = parentComment]]
  /\ UNCHANGED <<posts, comments>>
  /\ UNCHANGED <<postsRouter, vreq, teamVars, sockVars, ncall>>

(* const comment = await Comment.create({...}) and the response *)
CommentCreate(i, c) ==
  /\ creq[i].pc = "checked" /\ creq[i].op = "create"
  /\ FreshComment(c)
  /\ LET r == creq[i]
     IN /\ comments' = [comments EXCEPT ![c] =
                          [NoComment EXCEPT !.exists = TRUE, !.post = r.postId.oid,
                                            !.parentComment = r.parentCommentId,
                                            !.author = r.actor, !.content = r.content]]
        /\ creq' = [creq EXCEPT ![i] = [r EXCEPT !.pc = "done", !.result = "OK", !.target = c]]
  /\ UNCHANGED posts
  /\ UNCHANGED <<postsRouter, vreq, teamVars, sockVars, ncall>>

NotAuthor_Never(comment, a) == FALSE

(* comment.author.toString() !== req.user._id.toString() *)
NotAuthor(comment, a) == comment.author # a

(* PUT /:id and DELETE /:id of a comment: Comment.findById, ownership *)
CommentFind(i, op, a, c, content) ==
  /\ FirstFree(creq, i)
  /\ op \in {"update", "softDelete"}
  /\ op = "softDelete" <=> content = "[deleted]"
  /\ LET fresh == [NoThreadReq EXCEPT !.op = op, !.actor = a, !.target = c,
                                      !.content = content]
     IN creq' = [ForgetThread(creq, i) EXCEPT ![i] =
                   IF ~comments[c].exists
                   THEN [fresh EXCEPT !.pc = "done", !.result = "NOT_FOUND"]
                   ELSE IF NotAuthor(comments[c], a)
                   THEN [fresh EXCEPT !.pc = "done", !.result = "NOT_AUTHORIZED",
                                      !.doc = comments[c]]
                   ELSE [fresh EXCEPT !.pc = "found", !.doc = comments[c]]]
  /\ UNCHANGED <<posts, comments>>
  /\ UNCHANGED <<postsRouter, vreq, teamVars, sockVars, ncall>>

SoftDeleted_FlagOnly(doc) == [doc EXCEPT !.isDeleted = TRUE]

(* comment.content = '[deleted]'; comment.isDeleted = true *)
SoftDeleted(doc) == [doc EXCEPT !.content = "[deleted]", !.isDeleted = TRUE]

(* the assignments and await comment.save(): save() sends the paths whose  *)
(* value changed; with none changed it writes nothing                      *)
CommentSave(i) ==
  /\ creq[i].pc = "found" /\ creq[i].op \in {"update", "softDelete"}
  /\ LET r == creq[i]
         c == r.target
         cur == comments[c]
         edited == IF r.op = "update"
                   THEN [r.doc EXCEPT !.content = r.content, !.isEdited = TRUE]
                   ELSE SoftDeleted(r.doc)
         saved == [cur EXCEPT !.content = IF edited.content # r.doc.content
                                          THEN edited.content ELSE @,
                              !.isEdited = IF edited.isEdited # r.doc.isEdited
                                           THEN edited.isEdited ELSE @,
                              !.isDeleted = IF edited.isDeleted # r.doc.isDeleted
                                            THEN edited.isDeleted ELSE @]
     IN IF edited # r.doc /\ ~cur.exists
        THEN /\ creq' = [creq EXCEPT ![i] = [r EXCEPT !.pc = "done", !.result = "ERROR"]]
             /\ UNCHANGED comments
        ELSE /\ comments' = [comments EXCEPT ![c] = saved]
             /\ creq' = [creq EXCEPT ![i] = [r EXCEPT !.pc = "done", !.result = "OK"]]
  /\ UNCHANGED posts
  /\ UNCHANGED <<postsRouter, vreq, teamVars, sockVars, ncall>>

(* DELETE /api/posts/:id: Post.findById, ownership *)
PostDeleteFind(i, a, p) ==
  /\ FirstFree(creq, i)
  /\ LET fresh == [NoThreadReq EXCEPT !.op = "deletePost", !.actor = a, !.target = p]
     IN creq' = [ForgetThread(creq, i) EXCEPT ![i] =
                   IF ~posts[p].exists
                   THEN [fresh EXCEPT !.pc = "done", !.result = "NOT_FOUND"]
                   ELSE IF posts[p].author # a
                   THEN [fresh EXCEPT !.pc = "done", !.result = "NOT_AUTHORIZED"]
                   ELSE [fresh EXCEPT !.pc = "found"]]
  /\ UNCHANGED <<posts, comments>>
  /\ UNCHANGED <<postsRouter, vreq, teamVars, sockVars, ncall>>

(* Promise.all([Post.findByIdAndDelete, Comment.deleteMany]): the two run  *)
(* in either order; the response follows the second                        *)
PostDeleteDoc(i) ==
  /\ creq[i].pc = "found" /\ creq[i].op = "deletePost" /\ ~creq[i].postGone
  /\ posts' = [posts EXCEPT ![creq[i].target] = [@ EXCEPT !.exists = FALSE]]
  /\ creq' = [creq EXCEPT ![i] =
                IF creq[i].commentsGone
                THEN [creq[i] EXCEPT !.postGone = TRUE, !.pc = "done", !.result = "OK"]
                ELSE [creq[i] EXCEPT !.postGone = TRUE]]
  /\ UNCHANGED comments
  /\ UNCHANGED <<postsRouter, vreq, teamVars, sockVars, ncall>>

PostDeleteComments(i) ==
  /\ creq[i].pc = "found" /\ creq[i].op = "deletePost" /\ ~creq[i].commentsGone
  /\ comments' = [c \in DOMAIN comments |->
                    IF comments[c].exists /\ comments[c].post = creq[i].target
                    THEN Gone(comments[c])
                    ELSE comments[c]]
  /\ creq' = [creq EXCEPT ![i] =
                IF creq[i].postGone
                THEN [creq[i] EXCEPT !.commentsGone = TRUE, !.pc = "done", !.result = "OK"]
                ELSE [creq[i] EXCEPT !.commentsGone = TRUE]]
  /\ UNCHANGED posts
  /\ UNCHANGED <<postsRouter, vreq, teamVars, sockVars, ncall>>

PostIdInputs == {[oid |-> p, canonical |-> b] : p \in Posts, b \in BOOLEAN}

ThreadInit ==
  /\ posts = [p \in Posts |->
                [NoPost EXCEPT !.exists = TRUE, !.author = IF p = "p1" THEN "A" ELSE "B"]]
  /\ comments = [c \in Comments |-> NoComment]
  /\ postsRouter = "posts"
  /\ vreq = [i \in Reqs |-> IdleReq]
  /\ TeamsEmpty
  /\ creq = [i \in Reqs |-> NoThreadReq]

ThreadStart(i) ==
  \/ \E a \in Voters, postId \in PostIdInputs,
        parentCommentId \in DOMAIN comments \cup {None}, content \in Contents :
        CommentFindPost(i, a, postId, parentCommentId, content)
  \/ \E op \in {"update", "softDelete"}, a \in Voters, c \in DOMAIN comments,
        content \in Edits \cup {"[deleted]"} : CommentFind(i, op, a, c, content)
  \/ \E a \in Voters, p \in Posts : PostDeleteFind(i, a, p)

ThreadStep(i) ==
  \/ CommentFindParent(i)
  \/ \E c \in DOMAIN comments : CommentCreate(i, c)
  \/ CommentSave(i)
  \/ PostDeleteDoc(i)
  \/ PostDeleteComments(i)

ThreadNext == \E i \in Reqs : ThreadStart(i) \/ ThreadStep(i)

ThreadSpec == ThreadInit /\ [][ThreadNext]_vars

(* requests served one at a time *)
NoThreadInFlight == \A i \in Reqs : creq[i].pc \in {"idle", "done"}

ThreadSeqNext == \E i \in Reqs : (NoThreadInFlight /\ ThreadStart(i)) \/ ThreadStep(i)

ThreadSeqSpec == ThreadInit /\ [][ThreadSeqNext]_vars

(* comment creation and post deletion served concurrently: the steps of    *)
(* the two handlers interleave at their awaits                             *)
RaceStart(i) ==
  \/ \E a \in Voters, p \in Posts, parentCommentId \in DOMAIN comments \cup {None} :
        CommentFindPost(i, a, [oid |-> p, canonical |-> TRUE], parentCommentId, "hello")
  \/ \E a \in Voters, p \in Posts : PostDeleteFind(i, a, p)

RaceStep(i) ==
  \/ CommentFindParent(i)
  \/ \E c \in DOMAIN comments : CommentCreate(i, c)
  \/ PostDeleteDoc(i)
  \/ PostDeleteComments(i)

RaceNext == \E i \in Reqs : RaceStart(i) \/ RaceStep(i)

RaceSpec == ThreadInit /\ [][RaceNext]_vars

(* GET /:commentId/replies: the default page size *)
DefaultLimit == 10

(* the documents of Comment.find({ parentComment: commentId, isDeleted:    *)
(* false }).sort('-score createdAt'): score is a virtual and no stored     *)
(* path, so the documents come in the order of createdAt, which is the     *)
(* order of their ids                                                      *)
FoundReplies(commentId) ==
  LET IsReply(c) == /\ c \in DOMAIN comments /\ comments[c].exists
                    /\ comments[c].parentComment = commentId
                    /\ comments[c].isDeleted = FALSE
  IN SelectSeq(CommentIds, IsReply)

(* GET /:commentId/replies: 404 without the parent, else the page of       *)
(* replies and the total                                                   *)
getReplies(commentId, page, limit) ==
  LET found == FoundReplies(commentId)
      skip == (page - 1) * limit
  IN IF ~comments[commentId].exists
     THEN [status |-> 404, replies |-> <<>>, totalReplies |-> 0]
     ELSE [status |-> 200,
           replies |-> SubSeq(found, skip + 1, Min(skip + limit, Len(found))),
           totalReplies |-> Len(found)]

(* a thread on p1: c1 by A, its reply c2 by B, and one id not yet used *)
ReplyInit ==
  /\ posts = [p \in Posts |->
                [NoPost EXCEPT !.exists = TRUE, !.author = IF p = "p1" THEN "A" ELSE "B"]]
  /\ comments = [c \in ThreadComments |->
                   IF c = "c1"
                   THEN [NoComment EXCEPT !.exists = TRUE, !.post = "p1", !.author = "A",
                                          !.content = "hello"]
                   ELSE IF c = "c2"
                   THEN [NoComment EXCEPT !.exists = TRUE, !.post = "p1", !.author = "B",
                                          !.content = "hello", !.parentComment = "c1"]
                   ELSE NoComment]
  /\ postsRouter = "posts"
  /\ vreq = [i \in Reqs |-> IdleReq]
  /\ TeamsEmpty
  /\ creq = [i \in Reqs |-> NoThreadReq]

ReplySeqSpec == ReplyInit /\ [][ThreadSeqNext]_vars

(* a thread on p1 with two replies: c1 by A, then c2 by B and c3 by A, both *)
(* replying to c1; the vote routes are then served one request at a time   *)
RankInit ==
  /\ posts = [p \in Posts |-> IF p = "p1" THEN [NoPost EXCEPT !.exists = TRUE, !.author = "A"]
                              ELSE NoPost]
  /\ comments = [c \in ThreadComments |->
                   [NoComment EXCEPT !.exists = TRUE, !.post = "p1",
                                     !.author = IF c = "c2" THEN "B" ELSE "A",
                                     !.content = "hello",
                                     !.parentComment = IF c = "c1" THEN None ELSE "c1"]]
  /\ postsRouter = "posts"
  /\ vreq = [i \in Reqs |-> IdleReq]
  /\ TeamsEmpty
  /\ creq = [i \in Reqs |-> NoThreadReq]

RankSeqSpec == RankInit /\ [][VoteSeqNext]_vars

(***************************************************************************)
(* SocketService                                                           *)
(***************************************************************************)
(* this.users.set(socket.userId, socket.id) *)
UsersSet(u, c) == [users EXCEPT ![u] = c]

UsersDelete_Never(u) == users

(* this.users.delete(socket.userId) *)
UsersDelete(u) == [users EXCEPT ![u] = 0]

(* isUserOnline(userId): this.users.has(userId) *)
isUserOnline(u) == users[u] # 0

(* getOnlineUsersCount(): this.users.size *)
getOnlineUsersCount == Cardinality({u \in Actors : users[u] # 0})

(* socket ids are never reused: connections are made in the order of Conns *)
NextConn(c) == conns[c].state = "none" /\ \A d \in Conns : d < c => conns[d].state # "none"

(* handshake: the authentication middleware, then the connection handler *)
Connect(c, u, authenticated) ==
  /\ io /\ NextConn(c)
  /\ IF authenticated
     THEN /\ conns' = [conns EXCEPT ![c] = [state |-> "open", userId |-> u]]
          /\ users' = UsersSet(u, c)
          /\ rooms' = [rooms EXCEPT ![c] = {Room("user", u)}]
     ELSE /\ conns' = [conns EXCEPT ![c] = [state |-> "refused", userId |-> None]]
          /\ UNCHANGED <<users, rooms>>
  /\ lastEmit' = NoEmit
  /\ UNCHANGED <<voteVars, creq, teams, teamsJoined, notifications, treq, io, ncall>>

(* join_post, join_team: socket.join *)
SocketJoin(c, prefix, id) ==
  /\ conns[c].state = "open"
  /\ rooms' = [rooms EXCEPT ![c] = @ \cup {Room(prefix, id)}]
  /\ lastEmit' = NoEmit
  /\ UNCHANGED <<conns, users>>
  /\ UNCHANGED <<voteVars, creq, teams, teamsJoined, notifications, treq, io, ncall>>

(* leave_post, leave_team: socket.leave *)
SocketLeave(c, prefix, id) ==
  /\ conns[c].state = "open"
  /\ rooms' = [rooms EXCEPT ![c] = @ \ {Room(prefix, id)}]
  /\ lastEmit' = NoEmit
  /\ UNCHANGED <<conns, users>>
  /\ UNCHANGED <<voteVars, creq, teams, teamsJoined, notifications, treq, io, ncall>>

(* typing_start, typing_stop: socket.to(room).emit reaches the room but    *)
(* not the sender                                                          *)
Typing(c, event, id) ==
  /\ conns[c].state = "open"
  /\ lastEmit' = [room |-> Room("post", id), event |-> event,
                  to |-> InRoom(Room("post", id)) \ {c}]
  /\ UNCHANGED <<conns, rooms, users>>
  /\ UNCHANGED <<voteVars, creq, teams, teamsJoined, notifications, treq, io, ncall>>

(* disconnect: socket.io takes the socket out of its rooms, then the       *)
(* handler deletes the user's entry                                        *)
Disconnect(c) ==
  /\ conns[c].state = "open"
  /\ conns' = [conns EXCEPT ![c] = [@ EXCEPT !.state = "closed"]]
  /\ rooms' = [rooms EXCEPT ![c] = {}]
  /\ users' = UsersDelete(conns[c].userId)
  /\ lastEmit' = NoEmit
  /\ UNCHANGED <<voteVars, creq, teams, teamsJoined, notifications, treq, io, ncall>>

(* emitToUser, emitToPost, emitToTeam: this.io.to(room).emit(event, data); *)
(* notifyNewComment and notifyTeamInvitation go through them               *)
emitTo(prefix, id, event) ==
  /\ io
  /\ lastEmit' = [room |-> Room(prefix, id), event |-> event, to |-> InRoom(Room(prefix, id))]
  /\ UNCHANGED <<conns, rooms, users>>
  /\ UNCHANGED <<voteVars, creq, teams, teamsJoined, notifications, treq, io, ncall>>

(* notifyNewPost: this.io.emit reaches every connected socket *)
notifyNewPost ==
  /\ io
  /\ lastEmit' = [room |-> <<"*">>, event |-> "new_post",
                  to |-> {c \in Conns : conns[c].state = "open"}]
  /\ UNCHANGED <<conns, rooms, users>>
  /\ UNCHANGED <<voteVars, creq, teams, teamsJoined, notifications, treq, io, ncall>>

SocketInit ==
  /\ posts = [p \in Posts |-> NoPost]
  /\ comments = [c \in Comments |-> NoComment]
  /\ postsRouter = "posts"
  /\ vreq = [i \in Reqs |-> IdleReq]
  /\ creq = [i \in Reqs |-> NoThreadReq]
  /\ TeamsEmpty

ServerEvents ==
  {<<"user", "team_invitation">>, <<"post", "new_comment">>, <<"team", "member_joined">>}

(* the rooms the clients ask to join and leave: the id is any string the   *)
(* client sends, a user's id among them                                    *)
ClientRooms == {Room("post", "1"), Room("post", "2"), Room("team", "A")}

SocketNext ==
  \/ \E c \in Conns, u \in Voters, authenticated \in BOOLEAN : Connect(c, u, authenticated)
  \/ \E c \in Conns, room \in ClientRooms : SocketJoin(c, room[1], room[2])
  \/ \E c \in Conns, room \in ClientRooms : SocketLeave(c, room[1], room[2])
  \/ \E c \in Conns, event \in {"user_typing", "user_stopped_typing"}, id \in RoomIds :
        Typing(c, event, id)
  \/ \E c \in Conns : Disconnect(c)
  \/ \E e \in ServerEvents, id \in RoomIds \cup Voters :
        /\ (e[1] = "user") => (id \in Voters)
        /\ (e[1] = "post") => (id \in RoomIds)
        /\ emitTo(e[1], id, e[2])
  \/ notifyNewPost

SocketSpec == SocketInit /\ [][SocketNext]_vars

(***************************************************************************)
(* Notification model: the statics and methods, called one at a time       *)
(***************************************************************************)
NotificationTypes == {"post_upvote", "team_member_joined"}

(* Notification.createNotification({ recipientId, senderId, type, ... }) *)
Record(recipientId, senderId, type, persistOk) ==
  LET made == createNotification(recipientId, senderId, type, None, persistOk) IN
  /\ Len(notifications) < MaxNotifications
  /\ notifications' = notifications \o made
  /\ ncall' = [NoCall EXCEPT !.op = "createNotification", !.recipient = recipientId,
                             !.sender = senderId, !.persistOk = persistOk,
                             !.ret = made]
  /\ UNCHANGED <<teams, teamsJoined, treq, io, lastEmit>>
  /\ UNCHANGED <<voteVars, creq, sockVars>>

(* notificationSchema.methods.markAsRead: this.isRead = true;              *)
(* this.readAt = new Date(); the method takes no actor                     *)
MarkedRead(n) == [n EXCEPT !.isRead = TRUE, !.readAt = "now"]

(* a caller acting for `actor` runs notification.markAsRead() and saves *)
MarkAsRead(k, actor) ==
  /\ k \in DOMAIN notifications
  /\ notifications' = [notifications EXCEPT ![k] = MarkedRead(@)]
  /\ ncall' = [NoCall EXCEPT !.op = "markAsRead", !.actor = actor, !.index = k,
                             !.recipient = notifications[k].recipient,
                             !.sender = notifications[k].sender,
                             !.ret = <<MarkedRead(notifications[k])>>]
  /\ UNCHANGED <<teams, teamsJoined, treq, io, lastEmit>>
  /\ UNCHANGED <<voteVars, creq, sockVars>>

(* Notification.markAllAsRead(userId): updateMany({ recipient: userId,     *)
(* isRead: false }, { isRead: true, readAt: new Date() })                  *)
MarkAllAsRead(userId) ==
  /\ notifications' =
       [k \in DOMAIN notifications |->
          IF notifications[k].recipient = userId /\ notifications[k].isRead = FALSE
          THEN [notifications[k] EXCEPT !.isRead = TRUE, !.readAt = "now"]
          ELSE notifications[k]]
  /\ ncall' = [NoCall EXCEPT !.op = "markAllAsRead", !.actor = userId]
  /\ UNCHANGED <<teams, teamsJoined, treq, io, lastEmit>>
  /\ UNCHANGED <<voteVars, creq, sockVars>>

NotifyInit == SocketInit

NotifyNext ==
  \/ \E recipientId \in Actors, senderId \in Actors, type \in NotificationTypes,
        persistOk \in BOOLEAN : Record(recipientId, senderId, type, persistOk)
  \/ \E k \in 1..MaxNotifications, actor \in Actors : MarkAsRead(k, actor)
  \/ \E userId \in Actors : MarkAllAsRead(userId)

NotifySpec == NotifyInit /\ [][NotifyNext]_vars

(***************************************************************************)
(* C12: createNotification with the recipient equal to the sender returns  *)
(* null and leaves the stored notifications as they were; with a different *)
(* recipient, when the write succeeds, it stores exactly one more record,  *)
(* unread, and returns it.                                                 *)
(***************************************************************************)
C12_Step ==
  (ncall'.op = "createNotification" /\ <<ncall, notifications>>' # <<ncall, notifications>>)
  => IF ncall'.recipient = ncall'.sender
     THEN ncall'.ret = <<>> /\ notifications' = notifications
     ELSE IF ~ncall'.persistOk
     THEN ncall'.ret = <<>> /\ notifications' = notifications
     ELSE /\ Len(ncall'.ret) = 1
          /\ notifications' = Append(notifications, ncall'.ret[1])
          /\ ncall'.ret[1].recipient = ncall'.recipient
          /\ ncall'.ret[1].sender = ncall'.sender
          /\ ncall'.ret[1].isRead = FALSE

C12_SelfSuppressed == [][C12_Step]_vars

C12_Witness ==
  /\ ncall.op = "createNotification" /\ ncall.recipient = ncall.sender
  /\ Len(notifications) = 1 /\ notifications[1].isRead = FALSE

(***************************************************************************)
(* C1: after any sequence of vote requests served one at a time, no actor  *)
(* is in both the upvote and the downvote array of the same votable.       *)
(***************************************************************************)
C1_NeverInBothSets ==
  \A t \in Votables, a \in Voters :
    ~(Contains(Stored(t).upvotes, a) /\ Contains(Stored(t).downvotes, a))

(* a vote that switched direction has been served and stored *)
C1_Witness ==
  \E i \in Reqs :
    /\ vreq[i].pc = "done" /\ vreq[i].status = 200 /\ vreq[i].dir = "up"
    /\ Contains(vreq[i].doc.downvotes, vreq[i].actor)
    /\ Contains(Stored(vreq[i].target).upvotes, vreq[i].actor)

(***************************************************************************)
(* C2: no lost toggle.  When no vote request is in flight, every finished  *)
(* request that reported success, and whose actor issued no other of the   *)
(* finished requests on that votable, has its vote in the stored arrays:   *)
(* the actor is in the requested array exactly if the request toggled the  *)
(* vote on, and is not in the opposite array if the request removed it     *)
(* from there.  A request whose write was not applied reported failure.    *)
(***************************************************************************)
VotePresent(r) ==
  LET m == Toggle(r.router, r.dir, r.doc, r.actor)
      st == Stored(r.target)
      mine == IF r.dir = "up" THEN st.upvotes ELSE st.downvotes
      other == IF r.dir = "up" THEN st.downvotes ELSE st.upvotes
      on == IF r.dir = "up" THEN m.hasUpvoted ELSE m.hasDownvoted
      removedOther == IF r.dir = "up" THEN m.delta.downvotes.t # "none"
                      ELSE m.delta.upvotes.t # "none"
  IN /\ Contains(mine, r.actor) <=> on
     /\ removedOther => ~Contains(other, r.actor)

OnlyRequestOfActor(i) ==
  \A j \in Reqs : (j # i /\ vreq[j].pc = "done" /\ vreq[j].target = vreq[i].target)
                      => vreq[j].actor # vreq[i].actor

C2_NoLostToggle ==
  NoVoteInFlight =>
    \A i \in Reqs :
      (vreq[i].pc = "done" /\ vreq[i].status = 200 /\ OnlyRequestOfActor(i))
        => VotePresent(vreq[i])

(* two requests of different actors read the same version of one votable; *)
(* one replaced an array and both reported success                         *)
C2_Witness ==
  \E i, j \in Reqs :
    /\ i # j /\ vreq[i].pc = "done" /\ vreq[j].pc = "done"
    /\ vreq[i].target = vreq[j].target /\ vreq[i].actor # vreq[j].actor
    /\ vreq[i].status = 200 /\ vreq[j].status = 200
    /\ vreq[i].doc.v = vreq[j].doc.v
    /\ VersionWhere(Toggle(vreq[i].router, vreq[i].dir, vreq[i].doc, vreq[i].actor).delta)

(***************************************************************************)
(* C3: whatever the interleaving of vote requests, the stored arrays never *)
(* hold an actor in both arrays, nor more than once in one array.          *)
(***************************************************************************)
C3_OneVotePerActor ==
  \A t \in Votables, a \in Voters :
    /\ ~(Contains(Stored(t).upvotes, a) /\ Contains(Stored(t).downvotes, a))
    /\ Occurrences(Stored(t).upvotes, a) <= 1
    /\ Occurrences(Stored(t).downvotes, a) <= 1

(***************************************************************************)
(* C4: with create-team, join and leave served one at a time, a team never *)
(* has more members than maxMembers, and a join by a non-member that finds *)
(* the member count at or above maxMembers answers TEAM_FULL and leaves    *)
(* the stored member list as it was.                                       *)
(***************************************************************************)
C4_CapacityRespected ==
  /\ \A t \in Teams : teams[t].exists => Len(teams[t].members) <= teams[t].maxMembers
  /\ \A i \in Reqs :
       (/\ treq[i].pc = "done" /\ treq[i].op = "join" /\ treq[i].doc.exists
        /\ ~IsMember(treq[i].doc.members, treq[i].actor)
        /\ Len(treq[i].doc.members) >= treq[i].doc.maxMembers)
       => /\ treq[i].result = "TEAM_FULL"
          /\ teams[treq[i].team].members = treq[i].doc.members

(* a third actor was refused by a team of capacity 2 with 2 members *)
C4_Witness ==
  \E i \in Reqs :
    /\ treq[i].pc = "done" /\ treq[i].op = "join" /\ treq[i].result = "TEAM_FULL"
    /\ teams[treq[i].team].exists
    /\ teams[treq[i].team].maxMembers = 2
    /\ Len(teams[treq[i].team].members) = 2
    /\ ~IsMember(teams[treq[i].team].members, treq[i].actor)

(***************************************************************************)
(* C5: when the joins of two different non-members interleave on a team    *)
(* with one free place, the stored member list (of distinct actors) never  *)
(* exceeds maxMembers and at most one of the two joins succeeds.           *)
(***************************************************************************)
DistinctMembers(members) ==
  \A k, l \in DOMAIN members : members[k].user = members[l].user => k = l

C5_OneFreePlaceRace ==
  /\ \A t \in Teams :
       (teams[t].exists /\ DistinctMembers(teams[t].members))
         => Len(teams[t].members) <= teams[t].maxMembers
  /\ \A i, j \in Reqs :
       (/\ i # j /\ treq[i].op = "join" /\ treq[j].op = "join"
        /\ treq[i].team = treq[j].team /\ treq[i].actor # treq[j].actor
        /\ treq[i].doc = treq[j].doc
        /\ Len(treq[i].doc.members) + 1 = treq[i].doc.maxMembers)
       => ~(treq[i].result = "OK" /\ treq[j].result = "OK")

(***************************************************************************)
(* C6: an actor appears at most once in the member list of a team,         *)
(* whatever the interleaving of join requests.                             *)
(***************************************************************************)
C6_MemberOnce ==
  \A t \in Teams, a \in Actors : MemberCount(teams[t].members, a) <= 1

(***************************************************************************)
(* C7: a createComment whose parent belongs to another post than the one   *)
(* requested answers INVALID_REFERENCE, and every stored comment with a    *)
(* parent has the post of its parent.                                      *)
(***************************************************************************)
C7_ParentSamePost ==
  /\ \A c \in Comments :
       (comments[c].exists /\ comments[c].parentComment # None)
         => comments[c].post = comments[comments[c].parentComment].post
  /\ \A i \in Reqs :
       (/\ creq[i].pc = "done" /\ creq[i].op = "create"
        /\ creq[i].doc.exists /\ creq[i].doc.post # creq[i].postId.oid)
       => creq[i].result = "INVALID_REFERENCE" /\ creq[i].target = None

(* a reply is stored, and a reply under the other post was refused *)
C7_Witness ==
  \E i \in Reqs, c \in Comments :
    /\ creq[i].pc = "done" /\ creq[i].op = "create"
    /\ creq[i].result = "INVALID_REFERENCE"
    /\ creq[i].postId.canonical
    /\ comments[creq[i].parentCommentId].exists
    /\ comments[creq[i].parentCommentId].post # creq[i].postId.oid
    /\ comments[c].exists /\ comments[c].parentComment # None

(***************************************************************************)
(* C8: isOnline(actor) is true exactly when the actor has at least one     *)
(* live connection, also when the actor holds several connections and      *)
(* closes only some of them.                                               *)
(***************************************************************************)
LiveConns(u) == {c \in Conns : conns[c].state = "open" /\ conns[c].userId = u}

C8_OnlineIffConnected ==
  \A u \in Actors : isUserOnline(u) <=> LiveConns(u) # {}

(***************************************************************************)
(* C9: an event published to a room is delivered to exactly the            *)
(* connections that are in that room when it is published (a typing event  *)
(* to those other than its sender), so a connection that is only in post 1 *)
(* never receives an event published to post 2; and a step that changes    *)
(* the rooms of one connection (a close, a leave) leaves the rooms of      *)
(* every other connection as they were.                                    *)
(***************************************************************************)
IsServerEvent(event) == \E e \in ServerEvents : e[2] = event

DeliveredToSubscribers ==
  (lastEmit.event # None /\ lastEmit.room # <<"*">>)
    => /\ lastEmit.to \subseteq {c \in Conns : lastEmit.room \in rooms[c]}
       /\ IsServerEvent(lastEmit.event)
            => lastEmit.to = {c \in Conns : lastEmit.room \in rooms[c]}

OthersKeepRooms ==
  \A c \in Conns :
    rooms'[c] # rooms[c] => \A d \in Conns \ {c} : rooms'[d] = rooms[d]

C9_TopicIsolation == [](DeliveredToSubscribers) /\ [][OthersKeepRooms]_vars

C9_Witness ==
  /\ lastEmit.room = Room("post", "2") /\ lastEmit.event = "new_comment"
  /\ lastEmit.to # {}
  /\ \E c \in Conns :
       /\ conns[c].state = "open"
       /\ Room("post", "1") \in rooms[c] /\ Room("post", "2") \notin rooms[c]
       /\ c \notin lastEmit.to

(***************************************************************************)
(* C10: a closed connection is in no room and is not the entry of any user *)
(* in the presence map, and no event published after the close is          *)
(* delivered to it.                                                        *)
(***************************************************************************)
C10_ClosedIsGone ==
  \A c \in Conns :
    conns[c].state = "closed"
      => /\ rooms[c] = {}
         /\ \A u \in Actors : users[u] # c
         /\ c \notin lastEmit.to

C10_Witness ==
  \E c \in Conns :
    /\ conns[c].state = "closed"
    /\ lastEmit.room = Room("user", conns[c].userId)
    /\ lastEmit.to # {}

(***************************************************************************)
(* C11: once B's upvote of a post written by another actor A has been      *)
(* answered and has added the vote, a record (recipient A, sender B,       *)
(* type post_upvote, unread) is stored, the unread list of A is exactly    *)
(* that record, and an event has been emitted to the room of user A.       *)
(***************************************************************************)
C11_UpvoteNotifies ==
  \A i \in Reqs :
    LET r == vreq[i] IN
    (/\ r.pc = "done" /\ r.status = 200 /\ r.target \in Posts
     /\ r.dir = "up" /\ r.hasUpvoted
     /\ r.actor # posts[r.target].author)
    => LET listed == getUserNotifications(posts[r.target].author, 1, NotificationLimit, TRUE).notifications
       IN /\ Len(listed) = 1
          /\ listed[1].sender = r.actor
          /\ listed[1].type = "post_upvote"
          /\ listed[1].isRead = FALSE
          /\ lastEmit.room = Room("user", posts[r.target].author)

(***************************************************************************)
(* C13: a soft-deleted reply that has at least one reply of its own is     *)
(* still in the replies listed for its parent, with the tombstone as its   *)
(* content; a soft-deleted reply is left out only when it has none.        *)
(***************************************************************************)
HasChild(c) ==
  \E d \in DOMAIN comments : comments[d].exists /\ comments[d].parentComment = c

Listed(c, parent) ==
  \E k \in DOMAIN getReplies(parent, 1, DefaultLimit).replies :
    getReplies(parent, 1, DefaultLimit).replies[k] = c

C13_DeletedWithChildrenListed ==
  \A c \in DOMAIN comments :
    (/\ comments[c].exists /\ comments[c].isDeleted
     /\ comments[c].parentComment # None
     /\ comments[comments[c].parentComment].exists)
    => /\ HasChild(c) => (Listed(c, comments[c].parentComment)
                           /\ comments[c].content = "[deleted]")
       /\ ~Listed(c, comments[c].parentComment) => ~HasChild(c)

(***************************************************************************)
(* C14: the step that completes a soft delete by the comment's author      *)
(* leaves the comment with the tombstone as content and isDeleted set and  *)
(* with every other field as stored before (post, parent, vote sets);      *)
(* every other comment and every post are as before, and the replies       *)
(* listed for the deleted comment are the same as before.                  *)
(***************************************************************************)
C14_Step ==
  \A i \in Reqs :
    (/\ creq[i].pc = "found" /\ creq[i].op = "softDelete"
     /\ creq'[i].pc = "done" /\ creq'[i].result = "OK")
    => LET c == creq[i].target IN
       /\ creq[i].actor = comments[c].author
       /\ comments'[c] = [comments[c] EXCEPT !.content = "[deleted]", !.isDeleted = TRUE]
       /\ \A d \in DOMAIN comments \ {c} : comments'[d] = comments[d]
       /\ posts' = posts
       /\ getReplies(c, 1, DefaultLimit)' = getReplies(c, 1, DefaultLimit)

C14_SoftDeleteFrame == [][C14_Step]_vars

C14_Witness ==
  \E i \in Reqs :
    /\ creq[i].pc = "done" /\ creq[i].op = "softDelete" /\ creq[i].result = "OK"
    /\ comments[creq[i].target].isDeleted
    /\ comments[creq[i].target].content = "[deleted]"
    /\ creq[i].doc.content # "[deleted]"
    /\ comments[creq[i].target].parentComment # None
    /\ getReplies(creq[i].target, 1, DefaultLimit).totalReplies > 0

(***************************************************************************)
(* C15: a soft delete requested by an actor who is not the author of the   *)
(* stored comment is answered NOT_AUTHORIZED in the step that finds the    *)
(* comment, and that step leaves every comment as it was.                  *)
(***************************************************************************)
C15_Step ==
  \A i \in Reqs :
    (/\ creq[i].pc \in {"idle", "done"} /\ creq'[i] # creq[i]
     /\ creq'[i].op = "softDelete"
     /\ comments[creq'[i].target].exists
     /\ comments[creq'[i].target].author # creq'[i].actor)
    => /\ creq'[i].pc = "done" /\ creq'[i].result = "NOT_AUTHORIZED"
       /\ comments' = comments

C15_NotAuthorRejected ==
  /\ [][C15_Step]_vars
  /\ [](\A i \in Reqs :
          (creq[i].op = "softDelete" /\ creq[i].result = "NOT_AUTHORIZED")
          => /\ comments[creq[i].target].content = creq[i].doc.content
             /\ comments[creq[i].target].isDeleted = creq[i].doc.isDeleted)

C15_Witness ==
  \E i \in Reqs :
    /\ creq[i].pc = "done" /\ creq[i].op = "softDelete"
    /\ creq[i].result = "NOT_AUTHORIZED"
    /\ comments[creq[i].target].exists /\ ~comments[creq[i].target].isDeleted
    /\ comments[creq[i].target].author # creq[i].actor

(***************************************************************************)
(* C16: a markAsRead made for an actor who is not the recipient of the     *)
(* record returns no marked record and leaves the record's isRead and      *)
(* readAt as they were; the sender of a record never changes it.           *)
(***************************************************************************)
C16_Step ==
  (/\ ncall'.op = "markAsRead"
   /\ <<ncall, notifications>>' # <<ncall, notifications>>
   /\ ncall'.actor # ncall'.recipient)
  => /\ ncall'.ret = <<>>
     /\ notifications'[ncall'.index].isRead = notifications[ncall'.index].isRead
     /\ notifications'[ncall'.index].readAt = notifications[ncall'.index].readAt

C16_OnlyRecipientMarks == [][C16_Step]_vars

(***************************************************************************)
(* C17: the step that answers a join with success stores exactly one more  *)
(* record (recipient the team's creator, sender the joiner, type           *)
(* team_member_joined, unread) and its member_joined event reaches the     *)
(* sockets in the team's room and those in the creator's own room; the     *)
(* step that rejects a join stores no record and emits nothing.            *)
(***************************************************************************)
C17_Step ==
  \A i \in Reqs :
    (treq'[i] # treq[i] /\ treq'[i].pc = "done" /\ treq'[i].op = "join")
    => IF treq'[i].result = "OK"
       THEN /\ notifications' =
                 Append(notifications,
                        [recipient |-> teams[treq'[i].team].creator,
                         sender |-> treq'[i].actor, type |-> "team_member_joined",
                         relatedTeam |-> treq'[i].team, isRead |-> FALSE,
                         readAt |-> None])
            /\ lastEmit'.event = "member_joined"
            /\ InRoom(Room("team", treq'[i].team)) \subseteq lastEmit'.to
            /\ InRoom(Room("user", teams[treq'[i].team].creator)) \subseteq lastEmit'.to
       ELSE notifications' = notifications /\ lastEmit' = lastEmit

C17_JoinFansOut == [][C17_Step]_vars

(***************************************************************************)
(* C18: the step that answers a join with anything but success leaves an   *)
(* actor who was no member when the request read the team no member of     *)
(* the stored team, also when socketService.emitToTeam throws.             *)
(***************************************************************************)
C18_Step ==
  \A i \in Reqs :
    (/\ treq'[i] # treq[i]
     /\ treq'[i].pc = "done" /\ treq'[i].op = "join" /\ treq'[i].result # "OK"
     /\ ~IsMember(treq'[i].doc.members, treq'[i].actor))
    => ~IsMember(teams'[treq'[i].team].members, treq'[i].actor)

C18_NoFailureAfterPersist == [][C18_Step]_vars

(***************************************************************************)
(* C19: when the record of a join is not stored because the write failed,  *)
(* the step that ends the join still leaves the joiner a member, emits     *)
(* member_joined to the team's room and answers success.                   *)
(***************************************************************************)
C19_Step ==
  \A i \in Reqs :
    (/\ treq[i].pc = "saved" /\ treq[i].op = "join" /\ treq'[i].pc = "done"
     /\ treq[i].actor # treq[i].doc.creator
     /\ notifications' = notifications)
    => /\ IsMember(teams'[treq[i].team].members, treq[i].actor)
       /\ lastEmit'.room = Room("team", treq[i].team)
       /\ lastEmit'.event = "member_joined"
       /\ treq'[i].result = "OK"

C19_PublishDespiteFailedWrite == [][C19_Step]_vars

(***************************************************************************)
(* C20: the step that answers a comment creation with success emits a      *)
(* new_comment event to the room of the comment's post, which reaches      *)
(* every socket that is in that room at that time.                         *)
(***************************************************************************)
C20_Step ==
  \A i \in Reqs :
    (/\ creq[i].pc = "checked" /\ creq[i].op = "create"
     /\ creq'[i].pc = "done" /\ creq'[i].result = "OK")
    => /\ lastEmit'.room = Room("post", creq[i].postId.oid)
       /\ lastEmit'.event = "new_comment"
       /\ lastEmit'.to = InRoom(Room("post", creq[i].postId.oid))

C20_CommentPublished == [][C20_Step]_vars

(***************************************************************************)
(* C21: the step that answers a vote with 200 leaves the actor in the      *)
(* state the toggle rule gives (none when the direction is the actor's     *)
(* vote before the call, else the direction, and never in both sets),      *)
(* leaves every other actor's entries as they were, and answers with the   *)
(* score and the vote flags of the sets stored after the step.             *)
(***************************************************************************)
VoteState(doc, a) ==
  IF Contains(doc.upvotes, a) THEN "up"
  ELSE IF Contains(doc.downvotes, a) THEN "down" ELSE "none"

C21_Step ==
  \A i \in Reqs :
    (vreq[i].pc = "found" /\ vreq'[i].pc = "done" /\ vreq'[i].status = 200)
    => LET r == vreq'[i]
           a == r.actor
           t == vreq[i].target
           before == Stored(t)
           after == IF t \in Posts THEN posts'[t] ELSE comments'[t]
           want == IF VoteState(before, a) = r.dir THEN "none" ELSE r.dir
       IN /\ r.target = t
          /\ VoteState(after, a) = want
          /\ ~(Contains(after.upvotes, a) /\ Contains(after.downvotes, a))
          /\ Occurrences(after.upvotes, a) <= 1 /\ Occurrences(after.downvotes, a) <= 1
          /\ \A b \in Actors \ {a} :
               /\ Occurrences(after.upvotes, b) = Occurrences(before.upvotes, b)
               /\ Occurrences(after.downvotes, b) = Occurrences(before.downvotes, b)
          /\ r.score = score(after)
          /\ r.hasUpvoted = (want = "up")
          /\ r.hasDownvoted = (want = "down")

C21_ToggleRule == [][C21_Step]_vars

C21_Witness ==
  \E i \in Reqs :
    /\ vreq[i].pc = "done" /\ vreq[i].status = 200 /\ vreq[i].target = "p1"
    /\ vreq[i].actor = "A" /\ vreq[i].dir = "down"
    /\ vreq[i].score = 0 /\ ~vreq[i].hasUpvoted /\ ~vreq[i].hasDownvoted
    /\ posts["p1"].v = 3
    /\ posts["p1"].upvotes = <<>> /\ posts["p1"].downvotes = <<>>

(***************************************************************************)
(* C22: when a vote by an actor who had no vote has been answered with     *)
(* 200, a second request of the same actor in the same direction, served   *)
(* next on that votable, stores both vote arrays exactly as they were      *)
(* before the first request and answers the original score with no vote.   *)
(***************************************************************************)
C22_TwiceIsNone ==
  \A i \in Reqs :
    LET r == vreq[i] IN
    (/\ r.pc = "done" /\ r.status = 200
     /\ VoteState(r.doc, r.actor) = "none"
     /\ NoVoteInFlight)
    => LET cur == Stored(r.target)
           second == Toggle(r.router, r.dir, cur, r.actor)
           stored == AfterSave(cur, second.delta)
       IN /\ stored.upvotes = r.doc.upvotes
          /\ stored.downvotes = r.doc.downvotes
          /\ VoteState(stored, r.actor) = "none"
          /\ Len(second.up) - Len(second.down) = score(r.doc)
          /\ ~second.hasUpvoted /\ ~second.hasDownvoted

C22_Witness ==
  \E i \in Reqs :
    /\ vreq[i].pc = "done" /\ vreq[i].status = 200 /\ NoVoteInFlight
    /\ VoteState(vreq[i].doc, vreq[i].actor) = "none"
    /\ vreq[i].doc.upvotes # <<>>
    /\ vreq[i].target \in Comments
    /\ VoteState(Stored(vreq[i].target), vreq[i].actor) = vreq[i].dir

(***************************************************************************)
(* C23: the step that decides a leave answers NOT_MEMBER when the actor is *)
(* not among the stored members and CREATOR_MUST_TRANSFER when the actor   *)
(* is the creator and other members remain, and leaves the teams as they   *)
(* were in both cases; and every stored team that has a member has its     *)
(* creator among its members.                                              *)
(***************************************************************************)
CreatorAmongMembers ==
  \A t \in Teams :
    (teams[t].exists /\ teams[t].members # <<>>)
      => IsMember(teams[t].members, teams[t].creator)

C23_Step ==
  \A i \in Reqs :
    (treq[i].pc = "found" /\ treq[i].op = "leave" /\ treq'[i] # treq[i])
    => LET stored == teams[treq[i].team]
           a == treq[i].actor
       IN /\ ~IsMember(stored.members, a)
               => (treq'[i].result = "NOT_MEMBER" /\ teams' = teams)
          /\ (IsMember(stored.members, a) /\ stored.creator = a /\ Len(stored.members) > 1)
               => (treq'[i].result = "CREATOR_MUST_TRANSFER" /\ teams' = teams)

C23_CreatorStays == [](CreatorAmongMembers) /\ [][C23_Step]_vars

C23_Witness ==
  \E i \in Reqs :
    /\ treq[i].pc = "done" /\ treq[i].op = "leave"
    /\ treq[i].result = "CREATOR_MUST_TRANSFER"
    /\ teams[treq[i].team].creator = treq[i].actor
    /\ Len(teams[treq[i].team].members) = 2
    /\ \E u \in Teams, b \in Actors :
         teams[u].exists /\ ~IsMember(teams[u].members, b)

(***************************************************************************)
(* C24: the step that decides a join answers ALREADY_MEMBER for a member,  *)
(* else TEAM_FULL for a full team, else TEAM_CLOSED for a team that is not *)
(* open, and a step that answers a join with a rejection leaves the teams, *)
(* the users' team counters and the stored notifications as they were.     *)
(***************************************************************************)
C24_Step ==
  \A i \in Reqs :
    /\ (treq[i].pc = "found" /\ treq[i].op = "join" /\ treq'[i] # treq[i])
       => LET stored == teams[treq[i].team]
              a == treq[i].actor
              isMember == IsMember(stored.members, a)
              isFull == Len(stored.members) >= stored.maxMembers
          IN /\ isMember => treq'[i].result = "ALREADY_MEMBER"
             /\ (~isMember /\ isFull) => treq'[i].result = "TEAM_FULL"
             /\ (~isMember /\ ~isFull /\ ~stored.isOpen) => treq'[i].result = "TEAM_CLOSED"
             /\ (~isMember /\ ~isFull /\ stored.isOpen) => treq'[i].pc = "saved"
    /\ (/\ treq'[i] # treq[i] /\ treq'[i].op = "join" /\ treq'[i].pc = "done"
        /\ treq'[i].result \in {"NOT_FOUND", "ALREADY_MEMBER", "TEAM_FULL", "TEAM_CLOSED"})
       => /\ teams' = teams
          /\ teamsJoined' = teamsJoined
          /\ notifications' = notifications

C24_RejectionOrder == [][C24_Step]_vars

C24_Witness ==
  \E i \in Reqs :
    /\ treq[i].pc = "done" /\ treq[i].op = "join" /\ treq[i].result = "TEAM_CLOSED"
    /\ ~IsMember(teams[treq[i].team].members, treq[i].actor)
    /\ Len(teams[treq[i].team].members) < teams[treq[i].team].maxMembers
    /\ ~teams[treq[i].team].isOpen
    /\ teams[treq[i].team].exists

(***************************************************************************)
(* C25: the replies listed for a parent are its listed children ordered by *)
(* score (upvoters minus downvoters) descending, ties by creation time     *)
(* ascending, and page p of size L holds positions (p-1)*L to p*L-1 of     *)
(* that order.                                                             *)
(***************************************************************************)
CreatedAt(c) == CHOOSE k \in DOMAIN CommentIds : CommentIds[k] = c

CommentScore(c) == score(comments[c])

RanksBefore(c, d) ==
  \/ CommentScore(c) > CommentScore(d)
  \/ CommentScore(c) = CommentScore(d) /\ CreatedAt(c) < CreatedAt(d)

ListedChildren(parent) ==
  {c \in DOMAIN comments : /\ comments[c].exists /\ comments[c].isDeleted = FALSE
                            /\ comments[c].parentComment = parent}

(* the listed children in the order the claim states *)
RankedChildren(parent) ==
  LET S == ListedChildren(parent)
  IN CHOOSE s \in [1..Cardinality(S) -> S] :
       /\ \A c \in S : \E k \in DOMAIN s : s[k] = c
       /\ \A k, l \in DOMAIN s : k < l => RanksBefore(s[k], s[l])

PageSizes == {1, 2}

C25_PagesOfRankedOrder ==
  \A parent \in DOMAIN comments : comments[parent].exists =>
    \A L \in PageSizes, p \in 1..3 :
      LET ranked == RankedChildren(parent)
          skip == (p - 1) * L
      IN /\ getReplies(parent, p, L).status = 200
         /\ getReplies(parent, p, L).replies
              = SubSeq(ranked, skip + 1, Min(skip + L, Len(ranked)))

(***************************************************************************)
(* C26: the listing for an actor holds only records whose recipient is the *)
(* actor, newest first, and with unreadOnly only unread ones; it is the    *)
(* page's slice of the records matching the filter; the unread count is    *)
(* the number of the actor's unread records whatever the flag and page,    *)
(* and the total is the number of records matching the filter.             *)
(***************************************************************************)
CountOf(P(_)) == Cardinality({k \in DOMAIN notifications : P(notifications[k])})

Pages == 1..3

Limits == {1, 2, NotificationLimit}

C26_ListForRecipient ==
  \A actor \in Actors, unreadOnly \in BOOLEAN, page \in Pages, limit \in Limits :
    LET res == getUserNotifications(actor, page, limit, unreadOnly)
        listed == res.notifications
        InFilter(n) == n.recipient = actor /\ (unreadOnly => n.isRead = FALSE)
        Unread(n) == n.recipient = actor /\ n.isRead = FALSE
        skip == (page - 1) * limit
        Shown(n) == /\ InFilter(n)
                    /\ CountOf(LAMBDA o : InFilter(o) /\ o.createdAt > n.createdAt)
                          \in skip..(skip + limit - 1)
    IN /\ \A k \in DOMAIN listed :
            /\ listed[k].recipient = actor
            /\ unreadOnly => listed[k].isRead = FALSE
            /\ \E j \in DOMAIN notifications : notifications[j] = listed[k]
       /\ \A k, l \in DOMAIN listed : k < l => listed[k].createdAt > listed[l].createdAt
       /\ Len(listed) = CountOf(Shown)
       /\ res.unreadCount = CountOf(Unread)
       /\ res.total = CountOf(InFilter)

C26_Witness ==
  /\ getUserNotifications("A", 1, NotificationLimit, FALSE).total = 2
  /\ getUserNotifications("A", 1, NotificationLimit, TRUE).total = 1
  /\ getUserNotifications("A", 2, 1, FALSE).notifications # <<>>
  /\ getUserNotifications("A", 2, 1, FALSE).unreadCount = 1

(***************************************************************************)
(* C27: a team is deleted only when its stored member list is empty: no    *)
(* step removes a team that still has a stored member, so a join that      *)
(* interleaves with the leave of the creator as sole member never adds a   *)
(* member to a team that the leave then deletes.                           *)
(***************************************************************************)
C27_Step ==
  \A t \in Teams :
    (teams[t].exists /\ ~teams'[t].exists) => teams[t].members = <<>>

C27_DeletedOnlyWhenEmpty == [][C27_Step]_vars

(***************************************************************************)
(* C28: every stored comment refers to an existing post: whenever no post  *)
(* deletion is in progress, the post of each stored comment exists, for    *)
(* every interleaving of a post deletion with a comment creation.          *)
(***************************************************************************)
NoDeletionInProgress ==
  \A i \in Reqs : creq[i].op = "deletePost" => creq[i].pc \in {"idle", "done"}

C28_CommentsHavePosts ==
  NoDeletionInProgress =>
    \A c \in DOMAIN comments : comments[c].exists => posts[comments[c].post].exists

(***************************************************************************)
(* C29: a stored comment with isDeleted set has the tombstone as content:  *)
(* after a soft delete no later edit replaces the content, and isDeleted   *)
(* of a stored comment never returns to FALSE.                             *)
(***************************************************************************)
C29_Step ==
  \A c \in DOMAIN comments :
    (comments[c].exists /\ comments[c].isDeleted /\ comments'[c].exists)
      => comments'[c].isDeleted

C29_TombstoneKept ==
  /\ [](\A c \in DOMAIN comments :
          (comments[c].exists /\ comments[c].isDeleted) => comments[c].content = "[deleted]")
  /\ [][C29_Step]_vars

(***************************************************************************)
(* C30: a connection is in a user's personal room only if it is open and   *)
(* authenticated as that user at the handshake; it joins its own room on   *)
(* connect; no join or leave request, whatever id it names, puts it in     *)
(* another user's room; an event emitted to a user's room reaches only     *)
(* that user's connections; a connection refused at the handshake is in no *)
(* room.                                                                   *)
(***************************************************************************)
C30_Step ==
  \A c \in Conns :
    (conns[c].state = "none" /\ conns'[c].state = "open")
      => rooms'[c] = {Room("user", conns'[c].userId)}

C30_OwnUserRoomOnly ==
  /\ [](\A c \in Conns :
          /\ \A u \in Actors : Room("user", u) \in rooms[c]
                                  => conns[c].state = "open" /\ conns[c].userId = u
          /\ conns[c].state \in {"none", "refused"} => rooms[c] = {}
          /\ \A u \in Actors : (lastEmit.room = Room("user", u) /\ c \in lastEmit.to)
                                  => conns[c].state = "open" /\ conns[c].userId = u)
  /\ [][C30_Step]_vars

C30_Witness ==
  /\ \E c, d \in Conns :
       /\ conns[c].state = "open" /\ conns[c].userId = "A"
       /\ conns[d].state = "open" /\ conns[d].userId = "B"
       /\ Room("team", "A") \in rooms[d]
       /\ lastEmit.room = Room("user", "A") /\ lastEmit.to = {c}

Init == VoteInit
Next == VoteNext
Spec == Init /\ [][Next]_vars
====
